---- MODULE Spec2Model ----
(***************************************************************************)
(* Shape-level model of guided_diffusion/unet.py: the construction of the  *)
(* dual-pathway EchoDNDUNet (encoder ladder, middle block, decoder ladder, *)
(* channel ledger, downsample counter), its forward pass (skip stacks,     *)
(* anchor addition, error exits), the two QKV head-splitting conventions,  *)
(* the head count of an AttentionBlock, and the ResBlock computation at    *)
(* initialization.                                                         *)
(*                                                                         *)
(* Tensors of the network are modelled by their shapes [n, c, s] (batch,   *)
(* channels, spatial side); the attention and ResBlock parts work on small *)
(* integer tensors.                                                        *)
(***************************************************************************)
EXTENDS Integers, Sequences, FiniteSets, TLC

VARIABLES
    \* ---- constructor arguments (self.* configuration) ----
    cfg,
    \* ---- constructor locals ----
    pc, ch, ds, level, blk, input_block_chans,
    \* ---- module fields ----
    input_blocks_gaussian, middle_block_gaussian, output_blocks_gaussian,
    out_gaussian,
    input_blocks_bernoulli, middle_block_bernoulli, output_blocks_bernoulli,
    out_bernoulli, mfcm,
    \* ---- the frame of the forward call in progress ----
    x, y, hs_gaussian, hs_bernoulli, h_gaussian, h_bernoulli, anch, ind,
    err, steps, outs,
    \* ---- appends to and pops from the skip stacks in the call, <<G, B>> ----
    pushes, pops,
    \* ---- the anchor biases added into each feature map and stack entry ----
    bias,
    \* ---- QKV attention head splitting ----
    attn,
    \* ---- one ResBlock and the call applied to it ----
    rb

netVars == <<cfg, pc, ch, ds, level, blk, input_block_chans,
             input_blocks_gaussian, middle_block_gaussian,
             output_blocks_gaussian, out_gaussian,
             input_blocks_bernoulli, middle_block_bernoulli,
             output_blocks_bernoulli, out_bernoulli, mfcm>>
ctorLocals == <<ch, ds, level, blk, input_block_chans>>
fields == <<input_blocks_gaussian, middle_block_gaussian,
            output_blocks_gaussian, out_gaussian,
            input_blocks_bernoulli, middle_block_bernoulli,
            output_blocks_bernoulli, out_bernoulli, mfcm>>
frame == <<x, y, hs_gaussian, hs_bernoulli, h_gaussian, h_bernoulli, anch,
           ind, err, steps, outs, pushes, pops, bias>>
vars == <<netVars, frame, attn, rb>>

-----------------------------------------------------------------------------
(* Bounds of the model *)

MaxLevels == 2
MaxResBlocks == 2
MaxSize == 4
MaxBatch == 2
MaxHeads == 3
MaxHeadChannels == 2
MaxLength == 2
MaxChannels == 2
MaxSpatial == 2

(* Values the configuration is drawn from *)

DefaultChannelMult == <<1, 2, 4, 8>>
MultChoices == {1, 2}
AttentionChoices == {{}, {2, 4}, {1, 8}}
ModelChannelChoices == {32}
InputChannelChoices == {2, 3, 4}
None == "None"

Pow2(k) == 2 ^ k

ChannelMults ==
    {DefaultChannelMult} \cup
    UNION {[1..n -> MultChoices] : n \in 1..MaxLevels}

Configs ==
    [image_size : {Pow2(Len(DefaultChannelMult) - 1)},
     in_channels : {2},
     model_channels : ModelChannelChoices,
     out_channels_gaussian : {2},
     out_channels_bernoulli : {1},
     num_res_blocks : 0..MaxResBlocks,
     attention_resolutions : AttentionChoices,
     channel_mult : ChannelMults,
     conv_resample : BOOLEAN,
     num_classes : {None, "ten"},
     num_heads : {1},
     num_head_channels : {-1},
     num_heads_upsample : {1},
     resblock_updown : BOOLEAN,
     use_new_attention_order : {FALSE},
     high_way : BOOLEAN]

-----------------------------------------------------------------------------
(* Layers and stages *)

Layer(type, channels, out_channels, use_conv, up, down, num_heads) ==
    [type |-> type, channels |-> channels, out_channels |-> out_channels,
     use_conv |-> use_conv, up |-> up, down |-> down, num_heads |-> num_heads]

\* conv_nd(dims, in, out, 3, padding=1)
Conv(in, out) == Layer("Conv", in, out, TRUE, FALSE, FALSE, 0)

\* ResBlock.__init__: out_channels or channels; h_upd/x_upd resample without conv
ResBlock(channels, out_channels, up, down) ==
    Layer("ResBlock", channels, out_channels, FALSE, up, down, 0)

\* AttentionBlock.__init__: num_heads when num_head_channels == -1,
\* channels // num_head_channels otherwise
AttentionBlock(channels, num_heads, num_head_channels) ==
    Layer("AttentionBlock", channels, channels, FALSE, FALSE, FALSE,
          IF num_head_channels = -1 THEN num_heads
          ELSE channels \div num_head_channels)

Upsample(channels, use_conv, out_channels) ==
    Layer("Upsample", channels, out_channels, use_conv, TRUE, FALSE, 0)

Downsample(channels, use_conv, out_channels) ==
    Layer("Downsample", channels, out_channels, use_conv, FALSE, TRUE, 0)

\* A TimestepEmbedSequential(*layers), with the value ds had when it was built
Stage(layers, d) == [layers |-> layers, ds |-> d]

HasAttention(stage) ==
    \E k \in 1..Len(stage.layers) : stage.layers[k].type = "AttentionBlock"

FirstOf(s) == s[1]
Last(s) == s[Len(s)]
Front(s) == SubSeq(s, 1, Len(s) - 1)

-----------------------------------------------------------------------------
(* EchoDNDUNet.__init__ *)

\* `if ds in attention_resolutions` (lines 526 and 613)
AttentionAt(d) == d \in cfg.attention_resolutions

\* `ds *= 2` (line 564) and `ds //= 2` (line 639)
DsIncremented(d) == d + 1
DsAfterDownsample(d) == d * 2
DsNotHalved(d) == d
DsAfterUpsample(d) == d \div 2

\* `range(num_res_blocks + 1)` (line 599): decoder stages per level
DecoderBlocksOneShort(num_res_blocks) == num_res_blocks
DecoderBlocksPerLevel(num_res_blocks) == num_res_blocks + 1

\* `input_block_chans.append(ch)` (lines 538 and 563)
LedgerAppendDropped(ledger, c) == ledger
LedgerAppend(ledger, c) == Append(ledger, c)

\* `level != len(channel_mult) - 1` (line 541)
NotLastLevel(lv) == lv # Len(cfg.channel_mult)

NoStage == Stage(<<>>, 0)
NoOut == [norm_channels |-> 0, conv_in |-> 0, conv_out |-> 0]
Unbound == [n |-> 0, c |-> 0, s |-> 0]
NoAnch == <<Unbound, Unbound>>
NoOuts == <<Unbound, Unbound, Unbound>>
AttnIdle == [pc |-> "idle"]
RbIdle == [pc |-> "idle"]

NoBias == [h_gaussian |-> <<>>, h_bernoulli |-> <<>>,
           hs_gaussian |-> <<>>, hs_bernoulli |-> <<>>]

FrameCleared ==
    /\ x = Unbound /\ y = None
    /\ hs_gaussian = <<>> /\ hs_bernoulli = <<>>
    /\ h_gaussian = Unbound /\ h_bernoulli = Unbound
    /\ anch = NoAnch /\ ind = 0 /\ err = None /\ steps = {} /\ outs = NoOuts
    /\ pushes = <<0, 0>> /\ pops = <<0, 0>>
    /\ bias = NoBias

\* Lines 469-510: the state when the level loop is entered
CtorStart(c) ==
    /\ cfg = c
    /\ pc = "enc"
    /\ input_blocks_gaussian =
           <<Stage(<<Conv(c.in_channels, c.model_channels)>>, 1)>>
    /\ input_block_chans = <<c.model_channels>>
    /\ ch = c.model_channels
    /\ ds = 1
    /\ level = 1
    /\ blk = 0
    /\ middle_block_gaussian = NoStage
    /\ output_blocks_gaussian = <<>>
    /\ out_gaussian = NoOut
    /\ input_blocks_bernoulli = <<>>
    /\ middle_block_bernoulli = NoStage
    /\ output_blocks_bernoulli = <<>>
    /\ out_bernoulli = NoOut
    /\ mfcm = None

Init ==
    /\ \E c \in Configs : CtorStart(c)
    /\ FrameCleared
    /\ attn = AttnIdle
    /\ rb = RbIdle

\* Lines 513-538: one residual stage of the encoder
BuildEncRes ==
    /\ pc = "enc"
    /\ blk < cfg.num_res_blocks
    /\ LET mult == cfg.channel_mult[level]
           nch == mult * cfg.model_channels
           layers == <<ResBlock(ch, nch, FALSE, FALSE)>> \o
                     (IF AttentionAt(ds)
                      THEN <<AttentionBlock(nch, cfg.num_heads,
                                            cfg.num_head_channels)>>
                      ELSE <<>>)
       IN /\ input_blocks_gaussian' =
                 Append(input_blocks_gaussian, Stage(layers, ds))
          /\ ch' = nch
          /\ input_block_chans' = LedgerAppend(input_block_chans, nch)
    /\ blk' = blk + 1
    /\ UNCHANGED <<cfg, pc, ds, level, middle_block_gaussian,
                   output_blocks_gaussian, out_gaussian,
                   input_blocks_bernoulli, middle_block_bernoulli,
                   output_blocks_bernoulli, out_bernoulli, mfcm>>
    /\ UNCHANGED <<frame, attn, rb>>

\* Lines 541-565: the downsample stage that ends every level but the last
BuildEncDown ==
    /\ pc = "enc"
    /\ blk = cfg.num_res_blocks
    /\ NotLastLevel(level)
    /\ LET out_ch == ch
           layer == IF cfg.resblock_updown
                    THEN ResBlock(ch, out_ch, FALSE, TRUE)
                    ELSE Downsample(ch, cfg.conv_resample, out_ch)
       IN /\ input_blocks_gaussian' =
                 Append(input_blocks_gaussian, Stage(<<layer>>, ds))
          /\ ch' = out_ch
          /\ input_block_chans' = LedgerAppend(input_block_chans, out_ch)
    /\ ds' = DsAfterDownsample(ds)
    /\ level' = level + 1
    /\ blk' = 0
    /\ UNCHANGED <<cfg, pc, middle_block_gaussian,
                   output_blocks_gaussian, out_gaussian,
                   input_blocks_bernoulli, middle_block_bernoulli,
                   output_blocks_bernoulli, out_bernoulli, mfcm>>
    /\ UNCHANGED <<frame, attn, rb>>

\* Lines 569-594: ResBlock, AttentionBlock, ResBlock, whatever ds is
MiddleLayers(c) ==
    <<ResBlock(c, c, FALSE, FALSE),
      AttentionBlock(c, cfg.num_heads, cfg.num_head_channels),
      ResBlock(c, c, FALSE, FALSE)>>

BuildMiddle ==
    /\ pc = "enc"
    /\ blk = cfg.num_res_blocks
    /\ ~NotLastLevel(level)
    /\ middle_block_gaussian' = Stage(MiddleLayers(ch), ds)
    /\ pc' = "dec"
    /\ blk' = 0
    /\ UNCHANGED <<cfg, ch, ds, level, input_block_chans,
                   input_blocks_gaussian,
                   output_blocks_gaussian, out_gaussian,
                   input_blocks_bernoulli, middle_block_bernoulli,
                   output_blocks_bernoulli, out_bernoulli, mfcm>>
    /\ UNCHANGED <<frame, attn, rb>>

\* Lines 598-641: one decoder stage; blk is the loop index i, level runs down.
\* list.pop() on an empty ledger raises IndexError.
BuildDecStage ==
    /\ pc = "dec"
    /\ level >= 1
    /\ IF input_block_chans = <<>>
       THEN /\ pc' = "ctor_raised"
            /\ UNCHANGED <<ctorLocals, fields>>
       ELSE LET ich == Last(input_block_chans)
                mult == cfg.channel_mult[level]
                nch == cfg.model_channels * mult
                up == level # 1 /\ blk = cfg.num_res_blocks
                layers ==
                    <<ResBlock(ch + ich, nch, FALSE, FALSE)>> \o
                    (IF AttentionAt(ds)
                     THEN <<AttentionBlock(nch, cfg.num_heads_upsample,
                                           cfg.num_head_channels)>>
                     ELSE <<>>) \o
                    (IF up
                     THEN <<IF cfg.resblock_updown
                            THEN ResBlock(nch, nch, TRUE, FALSE)
                            ELSE Upsample(nch, cfg.conv_resample, nch)>>
                     ELSE <<>>)
                last == blk + 1 = DecoderBlocksPerLevel(cfg.num_res_blocks)
            IN /\ input_block_chans' = Front(input_block_chans)
               /\ output_blocks_gaussian' =
                      Append(output_blocks_gaussian, Stage(layers, ds))
               /\ ch' = nch
               /\ ds' = IF up THEN DsAfterUpsample(ds) ELSE ds
               /\ blk' = IF last THEN 0 ELSE blk + 1
               /\ level' = IF last THEN level - 1 ELSE level
               /\ pc' = pc
               /\ UNCHANGED <<input_blocks_gaussian, middle_block_gaussian,
                              out_gaussian, input_blocks_bernoulli,
                              middle_block_bernoulli, output_blocks_bernoulli,
                              out_bernoulli, mfcm>>
    /\ UNCHANGED cfg
    /\ UNCHANGED <<frame, attn, rb>>

\* Lines 644-648 and 656-660: normalization(ch), SiLU, zero conv from
\* model_channels to the pathway's out_channels
OutProjection(norm_channels, out_channels) ==
    [norm_channels |-> norm_channels, conv_in |-> cfg.model_channels,
     conv_out |-> out_channels]

\* Lines 662-664: self.mfcm is assigned only under high_way
MfcmField(high_way) == IF high_way THEN "HRNet" ELSE None

\* Lines 644-664: output projections, deep copies, conditioning module
\* Lines 650-652: deepcopy of a TimestepEmbedSequential and of a ModuleList
CopyFirstLayerOnly(stage) == Stage(<<stage.layers[1]>>, stage.ds)
DeepCopyStage(stage) == Stage(stage.layers, stage.ds)

DeepCopyList(blocks) == [k \in 1..Len(blocks) |-> DeepCopyStage(blocks[k])]

BuildOut ==
    /\ pc = "dec"
    /\ level = 0
    /\ out_gaussian' = OutProjection(ch, cfg.out_channels_gaussian)
    /\ input_blocks_bernoulli' = DeepCopyList(input_blocks_gaussian)
    /\ middle_block_bernoulli' = DeepCopyStage(middle_block_gaussian)
    /\ output_blocks_bernoulli' = DeepCopyList(output_blocks_gaussian)
    /\ out_bernoulli' = OutProjection(ch, cfg.out_channels_bernoulli)
    /\ mfcm' = MfcmField(cfg.high_way)
    /\ pc' = "ready"
    /\ UNCHANGED <<cfg, ctorLocals, input_blocks_gaussian,
                   middle_block_gaussian, output_blocks_gaussian>>
    /\ UNCHANGED <<frame, attn, rb>>

Build == BuildEncRes \/ BuildEncDown \/ BuildMiddle \/ BuildDecStage \/ BuildOut

-----------------------------------------------------------------------------
(* Shapes through the layers *)

Shape(n, c, s) == [n |-> n, c |-> c, s |-> s]
Bad == [n |-> -1, c |-> -1, s |-> -1]

\* Downsample.__init__/forward: conv with stride 2, kernel 3, padding 1, or
\* avg_pool with kernel 2, stride 2 (no output for an input side below 2)
ConvStride2Size(s) == (s - 1) \div 2 + 1
AvgPool2Size(s) == s \div 2

\* F.interpolate(x, scale_factor=2, mode="nearest")
InterpolateSameSize(s) == s
InterpolateSize(s) == s * 2

\* The shape one layer returns for input t, or Bad where it raises
ApplyLayer(l, t) ==
    IF t = Bad THEN Bad
    ELSE IF t.c # l.channels THEN Bad
    ELSE IF l.type = "Conv" THEN Shape(t.n, l.out_channels, t.s)
    ELSE IF l.type = "ResBlock" THEN
        IF l.up THEN Shape(t.n, l.out_channels, InterpolateSize(t.s))
        ELSE IF l.down THEN
            (IF t.s < 2 THEN Bad
             ELSE Shape(t.n, l.out_channels, AvgPool2Size(t.s)))
        ELSE Shape(t.n, l.out_channels, t.s)
    ELSE IF l.type = "AttentionBlock" THEN
        IF (3 * t.c) % (3 * l.num_heads) = 0 THEN t ELSE Bad
    ELSE IF l.type = "Upsample" THEN
        Shape(t.n, IF l.use_conv THEN l.out_channels ELSE t.c,
              InterpolateSize(t.s))
    ELSE \* Downsample
        IF l.use_conv
        THEN Shape(t.n, l.out_channels, ConvStride2Size(t.s))
        ELSE (IF t.s < 2 THEN Bad ELSE Shape(t.n, t.c, AvgPool2Size(t.s)))

\* TimestepEmbedSequential.forward: the layers in order
RECURSIVE ApplyLayers(_, _)
ApplyLayers(layers, t) ==
    IF layers = <<>> THEN t
    ELSE ApplyLayers(Tail(layers), ApplyLayer(Head(layers), t))

ApplyStage(stage, t) == ApplyLayers(stage.layers, t)

\* th.cat([a, b], dim=1): every dimension but the channels must agree
Cat(a, b) ==
    IF a = Bad \/ b = Bad THEN Bad
    ELSE IF a.n = b.n /\ a.s = b.s THEN Shape(a.n, a.c + b.c, a.s)
    ELSE Bad

\* a + b with broadcasting
BroadcastDim(p, q) == IF p = q THEN p ELSE IF p = 1 THEN q ELSE IF q = 1 THEN p ELSE 0
Add(a, b) ==
    IF a = Bad \/ b = Bad THEN Bad
    ELSE LET n == BroadcastDim(a.n, b.n)
             c == BroadcastDim(a.c, b.c)
             s == BroadcastDim(a.s, b.s)
         IN IF n = 0 \/ c = 0 \/ s = 0 THEN Bad ELSE Shape(n, c, s)

\* nn.Sequential(normalization(ch), SiLU, conv(model_channels -> out))
ApplyOut(o, t) ==
    IF t = Bad THEN Bad
    ELSE IF t.c # o.norm_channels THEN Bad
    ELSE IF t.c # o.conv_in THEN Bad
    ELSE Shape(t.n, o.conv_out, t.s)

\* The conditioning module (HRNet): two anchors at the stage-0 resolution
\* whose widths satisfy 2 * low + high = model_channels, and a calibration map
MfcmOutput(x_img) ==
    LET low == cfg.model_channels \div 4
        high == cfg.model_channels - 2 * low
    IN [anch |-> <<Shape(x_img.n, low, x_img.s), Shape(x_img.n, high, x_img.s)>>,
        cal |-> Shape(x_img.n, 1, x_img.s)]

-----------------------------------------------------------------------------
(* EchoDNDUNet.forward *)

\* Spatial sides tried: the small ones, and the smallest the default ladder
\* can halve at every level
Sizes == 1..MaxSize \cup {Pow2(Len(DefaultChannelMult) - 1)}

Inputs == [n : 1..MaxBatch, c : InputChannelChoices, s : Sizes]

\* `assert x.shape[1] == 3` (line 681)
InputChannelsUnchecked(t) == TRUE
InputChannelsOk(t) == t.c = 3

\* `assert (y is not None) == (self.num_classes is not None)` (lines 685-687)
LabelsUnchecked(labels, num_classes) == TRUE
LabelsMatchModel(labels, num_classes) == (labels # None) = (num_classes # None)

\* One call: forward(x, timesteps, y)
Call ==
    /\ pc = "ready"
    /\ \E t \in Inputs, labels \in {None, "labels"} :
          /\ x' = t
          /\ y' = labels
    /\ pc' = "L681"
    /\ UNCHANGED <<cfg, ctorLocals, fields>>
    /\ UNCHANGED <<hs_gaussian, hs_bernoulli, h_gaussian, h_bernoulli, anch,
                   ind, err, steps, outs, pushes, pops, bias, attn, rb>>

Raise(e) == pc' = "raised" /\ err' = e

\* Line 681
CheckChannels ==
    /\ pc = "L681"
    /\ steps' = steps \cup {"channels"}
    /\ IF InputChannelsOk(x)
       THEN pc' = "L685" /\ err' = err
       ELSE Raise("AssertionError: Input must have 3 channels")
    /\ UNCHANGED <<cfg, ctorLocals, fields>>
    /\ UNCHANGED <<x, y, hs_gaussian, hs_bernoulli, h_gaussian, h_bernoulli,
                   anch, ind, outs, pushes, pops, bias, attn, rb>>

\* Lines 685-687
CheckLabels ==
    /\ pc = "L685"
    /\ steps' = steps \cup {"labels"}
    /\ IF LabelsMatchModel(y, cfg.num_classes)
       THEN pc' = "L689" /\ err' = err
       ELSE Raise("AssertionError: must specify y iff class-conditional")
    /\ UNCHANGED <<cfg, ctorLocals, fields>>
    /\ UNCHANGED <<x, y, hs_gaussian, hs_bernoulli, h_gaussian, h_bernoulli,
                   anch, ind, outs, pushes, pops, bias, attn, rb>>

\* Lines 689-691: the two skip stacks and the timestep embedding
MakeStacks ==
    /\ pc = "L689"
    /\ steps' = steps \cup {"stacks", "time_embed"}
    /\ hs_gaussian' = <<>>
    /\ hs_bernoulli' = <<>>
    /\ pc' = "L693"
    /\ UNCHANGED <<cfg, ctorLocals, fields>>
    /\ UNCHANGED <<x, y, h_gaussian, h_bernoulli, anch, ind, err, outs,
                   pushes, pops, bias, attn, rb>>

\* Lines 693-694
CheckClassConditional ==
    /\ pc = "L693"
    /\ steps' = steps \cup {"class_conditional"}
    /\ IF cfg.num_classes # None
       THEN Raise("NotImplementedError")
       ELSE pc' = "L696" /\ err' = err
    /\ UNCHANGED <<cfg, ctorLocals, fields>>
    /\ UNCHANGED <<x, y, hs_gaussian, hs_bernoulli, h_gaussian, h_bernoulli,
                   anch, ind, outs, pushes, pops, bias, attn, rb>>

\* Lines 696 and 666-668: self.mfcm(x_img); reading an attribute that
\* __init__ never assigned raises AttributeError
CallMfcm ==
    /\ pc = "L696"
    /\ steps' = steps \cup {"mfcm_forward"}
    /\ IF mfcm = None
       THEN /\ Raise("AttributeError: mfcm")
            /\ UNCHANGED <<anch, outs>>
       ELSE LET r == MfcmOutput(Shape(x.n, 1, x.s))
            IN /\ anch' = r.anch
               /\ outs' = <<Unbound, Unbound, r.cal>>
               /\ pc' = "L698"
               /\ err' = err
    /\ UNCHANGED <<cfg, ctorLocals, fields>>
    /\ UNCHANGED <<x, y, hs_gaussian, hs_bernoulli, h_gaussian, h_bernoulli,
                   ind, pushes, pops, bias, attn, rb>>

\* Lines 698-699: cat([x_img, noise], dim=1) for each pathway
MakeInputs ==
    /\ pc = "L698"
    /\ steps' = steps \cup {"inputs"}
    /\ h_gaussian' = Cat(Shape(x.n, 1, x.s), Shape(x.n, 1, x.s))
    /\ h_bernoulli' = Cat(Shape(x.n, 1, x.s), Shape(x.n, 1, x.s))
    /\ ind' = 0
    /\ pc' = "L704"
    /\ UNCHANGED <<cfg, ctorLocals, fields>>
    /\ UNCHANGED <<x, y, hs_gaussian, hs_bernoulli, anch, err, outs, pushes, pops, bias, attn, rb>>

\* Line 704: the Gaussian pathway's encoder stage ind
EncodeGaussian ==
    /\ pc = "L704"
    /\ steps' = steps \cup {"encoder"}
    /\ LET r == ApplyStage(input_blocks_gaussian[ind + 1], h_gaussian)
       IN IF r = Bad
          THEN Raise("RuntimeError: encoder stage") /\ h_gaussian' = h_gaussian
          ELSE h_gaussian' = r /\ pc' = "L705" /\ err' = err
    /\ UNCHANGED <<cfg, ctorLocals, fields>>
    /\ UNCHANGED <<x, y, hs_gaussian, hs_bernoulli, h_bernoulli, anch, ind,
                   outs, pushes, pops, bias, attn, rb>>

\* Line 706: if ind == 0
AnchorEveryStage(i) == TRUE
AnchorStage(i) == i = 0

\* Lines 705-706: the Bernoulli pathway's encoder stage ind, and the test
\* for the anchor addition. Indexing a
\* ModuleList past its end raises IndexError.
EncodeBernoulli ==
    /\ pc = "L705"
    /\ IF ind + 1 > Len(input_blocks_bernoulli)
       THEN Raise("IndexError") /\ h_bernoulli' = h_bernoulli
       ELSE LET r == ApplyStage(input_blocks_bernoulli[ind + 1], h_bernoulli)
            IN IF r = Bad
               THEN /\ Raise("RuntimeError: encoder stage")
                    /\ h_bernoulli' = h_bernoulli
               ELSE /\ h_bernoulli' = r
                    /\ pc' = IF AnchorStage(ind) THEN "L707" ELSE "L709"
                    /\ err' = err
    /\ UNCHANGED <<cfg, ctorLocals, fields>>
    /\ UNCHANGED <<x, y, hs_gaussian, hs_bernoulli, h_gaussian, anch, ind,
                   steps, outs, pushes, pops, bias, attn, rb>>

\* `th.cat((anch[0], anch[0], anch[1]), 1).detach()`
AnchorBias(a) == Cat(Cat(a[1], a[1]), a[2])

\* Lines 706-708: under ind == 0, the anchor bias goes to both pathways
AddAnchors ==
    /\ pc = "L707"
    /\ steps' = steps \cup {"anchors"}
    /\ LET g == Add(h_gaussian, AnchorBias(anch))
           b == Add(h_bernoulli, AnchorBias(anch))
       IN IF g = Bad \/ b = Bad
          THEN /\ Raise("RuntimeError: anchor addition")
               /\ UNCHANGED <<h_gaussian, h_bernoulli, bias>>
          ELSE /\ h_gaussian' = g
               /\ h_bernoulli' = b
               /\ bias' = [bias EXCEPT
                      !.h_gaussian = Append(@, AnchorBias(anch)),
                      !.h_bernoulli = Append(@, AnchorBias(anch))]
               /\ pc' = "L709"
               /\ err' = err
    /\ UNCHANGED <<cfg, ctorLocals, fields>>
    /\ UNCHANGED <<x, y, hs_gaussian, hs_bernoulli, anch, ind, outs, pushes, pops, attn, rb>>

\* Line 709
PushGaussian ==
    /\ pc = "L709"
    /\ hs_gaussian' = Append(hs_gaussian, h_gaussian)
    /\ bias' = [bias EXCEPT !.hs_gaussian = Append(@, bias.h_gaussian)]
    /\ pushes' = <<pushes[1] + 1, pushes[2]>>
    /\ pc' = "L710"
    /\ UNCHANGED <<cfg, ctorLocals, fields>>
    /\ UNCHANGED <<x, y, hs_bernoulli, h_gaussian, h_bernoulli, anch, ind,
                   err, steps, outs, pops, attn, rb>>

\* Line 710, and the loop test of line 701
PushBernoulli ==
    /\ pc = "L710"
    /\ hs_bernoulli' = Append(hs_bernoulli, h_bernoulli)
    /\ bias' = [bias EXCEPT !.hs_bernoulli = Append(@, bias.h_bernoulli)]
    /\ pushes' = <<pushes[1], pushes[2] + 1>>
    /\ IF ind + 1 < Len(input_blocks_gaussian)
       THEN ind' = ind + 1 /\ pc' = "L704"
       ELSE ind' = 0 /\ pc' = "L712"
    /\ UNCHANGED <<cfg, ctorLocals, fields>>
    /\ UNCHANGED <<x, y, hs_gaussian, h_gaussian, h_bernoulli, anch,
                   err, steps, outs, pops, attn, rb>>

\* Lines 712-713: the two middle blocks, and the loop test of line 715
Middle ==
    /\ pc = "L712"
    /\ steps' = steps \cup {"middle"}
    /\ LET g == ApplyStage(middle_block_gaussian, h_gaussian)
           b == ApplyStage(middle_block_bernoulli, h_bernoulli)
       IN IF g = Bad \/ b = Bad
          THEN /\ Raise("RuntimeError: middle block")
               /\ UNCHANGED <<h_gaussian, h_bernoulli>>
          ELSE /\ h_gaussian' = g
               /\ h_bernoulli' = b
               /\ err' = err
               /\ pc' = IF Len(output_blocks_gaussian) > 0
                        THEN "L716" ELSE "L721"
    /\ UNCHANGED <<cfg, ctorLocals, fields>>
    /\ UNCHANGED <<x, y, hs_gaussian, hs_bernoulli, anch, ind, outs, pushes, pops, bias, attn, rb>>

\* Lines 716-717: pop, concatenate, decoder stage ind (Gaussian).
\* list.pop() on an empty list raises IndexError.
DecodeGaussian ==
    /\ pc = "L716"
    /\ steps' = steps \cup {"decoder"}
    /\ IF hs_gaussian = <<>>
       THEN /\ Raise("IndexError: pop from empty list")
            /\ UNCHANGED <<hs_gaussian, h_gaussian, pops, bias>>
       ELSE LET c == Cat(h_gaussian, Last(hs_gaussian))
                r == ApplyStage(output_blocks_gaussian[ind + 1], c)
            IN /\ hs_gaussian' = Front(hs_gaussian)
               /\ bias' = [bias EXCEPT !.hs_gaussian = Front(@)]
               /\ pops' = <<pops[1] + 1, pops[2]>>
               /\ IF c = Bad
                  THEN /\ Raise("RuntimeError: cat sizes")
                       /\ h_gaussian' = h_gaussian
                  ELSE IF r = Bad
                  THEN /\ Raise("RuntimeError: decoder stage")
                       /\ h_gaussian' = c
                  ELSE /\ h_gaussian' = r
                       /\ pc' = "L718"
                       /\ err' = err
    /\ UNCHANGED <<cfg, ctorLocals, fields>>
    /\ UNCHANGED <<x, y, hs_bernoulli, h_bernoulli, anch, ind, outs, pushes,
                   attn, rb>>

\* Lines 718-719 (Bernoulli), and the loop test of line 715
DecodeBernoulli ==
    /\ pc = "L718"
    /\ IF hs_bernoulli = <<>> \/ ind + 1 > Len(output_blocks_bernoulli)
       THEN /\ Raise("IndexError: pop from empty list")
            /\ UNCHANGED <<hs_bernoulli, h_bernoulli, ind, pops, bias>>
       ELSE LET c == Cat(h_bernoulli, Last(hs_bernoulli))
                r == ApplyStage(output_blocks_bernoulli[ind + 1], c)
            IN /\ hs_bernoulli' = Front(hs_bernoulli)
               /\ bias' = [bias EXCEPT !.hs_bernoulli = Front(@)]
               /\ pops' = <<pops[1], pops[2] + 1>>
               /\ IF c = Bad
                  THEN /\ Raise("RuntimeError: cat sizes")
                       /\ UNCHANGED <<h_bernoulli, ind>>
                  ELSE IF r = Bad
                  THEN /\ Raise("RuntimeError: decoder stage")
                       /\ h_bernoulli' = c
                       /\ ind' = ind
                  ELSE /\ h_bernoulli' = r
                       /\ err' = err
                       /\ IF ind + 1 < Len(output_blocks_gaussian)
                          THEN ind' = ind + 1 /\ pc' = "L716"
                          ELSE ind' = 0 /\ pc' = "L721"
    /\ UNCHANGED <<cfg, ctorLocals, fields>>
    /\ UNCHANGED <<x, y, hs_gaussian, h_gaussian, anch, steps, outs, pushes,
                   attn, rb>>

\* Lines 721-727: the output projections and the return value
Project ==
    /\ pc = "L721"
    /\ steps' = steps \cup {"out"}
    /\ LET g == ApplyOut(out_gaussian, h_gaussian)
           b == ApplyOut(out_bernoulli, h_bernoulli)
       IN IF g = Bad \/ b = Bad
          THEN Raise("RuntimeError: output projection") /\ outs' = outs
          ELSE /\ outs' = <<g, b, outs[3]>>
               /\ pc' = "returned"
               /\ err' = err
    /\ UNCHANGED <<cfg, ctorLocals, fields>>
    /\ UNCHANGED <<x, y, hs_gaussian, hs_bernoulli, h_gaussian, h_bernoulli,
                   anch, ind, pushes, pops, bias, attn, rb>>

\* The call is over (returned or raised): its frame is gone
Exit ==
    /\ pc \in {"returned", "raised"}
    /\ pc' = "ready"
    /\ x' = Unbound /\ y' = None
    /\ hs_gaussian' = <<>> /\ hs_bernoulli' = <<>>
    /\ h_gaussian' = Unbound /\ h_bernoulli' = Unbound
    /\ anch' = NoAnch /\ ind' = 0 /\ err' = None /\ steps' = {}
    /\ outs' = NoOuts
    /\ pushes' = <<0, 0>> /\ pops' = <<0, 0>>
    /\ bias' = NoBias
    /\ UNCHANGED <<cfg, ctorLocals, fields, attn, rb>>

Forward ==
    \/ Call \/ CheckChannels \/ CheckLabels \/ MakeStacks
    \/ CheckClassConditional \/ CallMfcm \/ MakeInputs
    \/ EncodeGaussian \/ EncodeBernoulli \/ AddAnchors
    \/ PushGaussian \/ PushBernoulli \/ Middle
    \/ DecodeGaussian \/ DecodeBernoulli \/ Project \/ Exit

Next == Build \/ Forward

Spec == Init /\ [][Next]_vars

-----------------------------------------------------------------------------
(* QKVAttentionLegacy.forward and QKVAttention.forward: which element of the
   qkv projection becomes which element of q, k and v.  A tensor is its shape
   and its elements in row-major order; every element of qkv is its own
   position, so two tensors are equal exactly when they hold the same
   elements of qkv at the same places. *)

Tensor3(shape, data) == [shape |-> shape, data |-> data]

At(t, i, j, k) == t.data[(i * t.shape[2] + j) * t.shape[3] + k + 1]

\* Tensor.reshape / Tensor.view of a contiguous tensor: same row-major order
Reshape(t, sh) == Tensor3(sh, t.data)

\* Tensor.split(size, dim=1): the pieces, each with its elements in row-major
\* order; element p of piece r is element (i, (r - 1) * size + j, k) of t
SplitDim1(t, size) ==
    [r \in 1..(t.shape[2] \div size) |->
        Tensor3(<<t.shape[1], size, t.shape[3]>>,
                [p \in 1..(t.shape[1] * size * t.shape[3]) |->
                    At(t, (p - 1) \div (size * t.shape[3]),
                       (r - 1) * size + (((p - 1) \div t.shape[3]) % size),
                       (p - 1) % t.shape[3])])]

\* The qkv projection output, [bs x width x length]
QkvInput(bs, width, length) ==
    Tensor3(<<bs, width, length>>, [p \in 1..(bs * width * length) |-> p])

\* Line 344 / 377: ch = width // (3 * n_heads)
HeadChannels(width, n_heads) == width \div (3 * n_heads)

\* Line 345: qkv.reshape(bs * n_heads, ch * 3, length)
LegacyReshape(qkv, n_heads) ==
    LET c == HeadChannels(qkv.shape[2], n_heads)
    IN Reshape(qkv, <<qkv.shape[1] * n_heads, c * 3, qkv.shape[3]>>)

\* Line 345: .split(ch, dim=1)
LegacySplit(t, c) == SplitDim1(t, c)

\* Line 378: q, k, v = qkv.chunk(3, dim=1)
NewChunkSwapped(qkv) ==
    LET parts == SplitDim1(qkv, qkv.shape[2] \div 3)
    IN <<parts[2], parts[1], parts[3]>>
NewChunk(qkv) == SplitDim1(qkv, qkv.shape[2] \div 3)

\* Lines 382, 383, 386: .view / .reshape(bs * n_heads, ch, length)
NewView(parts, n_heads) ==
    [r \in 1..3 |->
        Reshape(parts[r], <<parts[r].shape[1] * n_heads,
                            parts[r].shape[2] \div n_heads,
                            parts[r].shape[3]>>)]

NoTensor == Tensor3(<<0, 0, 0>>, <<>>)
NoParts == <<NoTensor, NoTensor, NoTensor>>

AttnInputs ==
    [pc : {"start"}, n_heads : 1..MaxHeads, bs : 1..MaxBatch,
     ch : 1..MaxHeadChannels, length : 1..MaxLength,
     t : {NoTensor}, legacy : {NoParts}, new : {NoParts}]

\* The constructor arguments' defaults (lines 447-460)
DefaultConfig ==
    [image_size |-> Pow2(Len(DefaultChannelMult) - 1),
     in_channels |-> 2,
     model_channels |-> CHOOSE m \in ModelChannelChoices : TRUE,
     out_channels_gaussian |-> 2,
     out_channels_bernoulli |-> 1,
     num_res_blocks |-> 1,
     attention_resolutions |-> {},
     channel_mult |-> DefaultChannelMult,
     conv_resample |-> TRUE,
     num_classes |-> None,
     num_heads |-> 1,
     num_head_channels |-> -1,
     num_heads_upsample |-> 1,
     resblock_updown |-> FALSE,
     use_new_attention_order |-> FALSE,
     high_way |-> TRUE]

InitAttn ==
    /\ CtorStart(DefaultConfig)
    /\ FrameCleared
    /\ attn \in AttnInputs
    /\ rb = RbIdle

AttnQkv == QkvInput(attn.bs, 3 * attn.n_heads * attn.ch, attn.length)

AttnLegacyReshape ==
    /\ attn.pc = "start"
    /\ attn' = [attn EXCEPT !.pc = "legacy_reshaped",
                            !.t = LegacyReshape(AttnQkv, attn.n_heads)]
    /\ UNCHANGED <<netVars, frame, rb>>

AttnLegacySplit ==
    /\ attn.pc = "legacy_reshaped"
    /\ attn' = [attn EXCEPT !.pc = "legacy_done",
                            !.legacy = LegacySplit(attn.t,
                                HeadChannels(AttnQkv.shape[2], attn.n_heads)),
                            !.t = NoTensor]
    /\ UNCHANGED <<netVars, frame, rb>>

AttnNewChunk ==
    /\ attn.pc = "legacy_done"
    /\ attn' = [attn EXCEPT !.pc = "new_chunked", !.new = NewChunk(AttnQkv)]
    /\ UNCHANGED <<netVars, frame, rb>>

AttnNewView ==
    /\ attn.pc = "new_chunked"
    /\ attn' = [attn EXCEPT !.pc = "done",
                            !.new = NewView(attn.new, attn.n_heads)]
    /\ UNCHANGED <<netVars, frame, rb>>

NextAttn == AttnLegacyReshape \/ AttnLegacySplit \/ AttnNewChunk \/ AttnNewView

SpecAttn == InitAttn /\ [][NextAttn]_vars

\* Where channel c of qkv (batch 0, position 0) went: <<head, role, index>>,
\* role 1, 2, 3 for q, k, v
ChannelTriple(parts, c) ==
    LET src == At(AttnQkv, 0, c, 0)
    IN CHOOSE tr \in (0..(attn.n_heads - 1)) \X (1..3) \X (0..(attn.ch - 1)) :
           At(parts[tr[2]], tr[1], tr[3], 0) = src

SameTriples ==
    \A c \in 0..(3 * attn.n_heads * attn.ch - 1) :
        ChannelTriple(attn.legacy, c) = ChannelTriple(attn.new, c)

\* C9 as stated: for every n_heads the two conventions give every channel of
\* qkv the same (head, role, index) and so the same q, k and v.
C9_ConventionsEquivalent ==
    attn.pc = "done" => (attn.legacy = attn.new /\ SameTriples)

\* C9 as amended: they do for n_heads = 1.
C9_ConventionsEquivalentOneHead ==
    (attn.pc = "done" /\ attn.n_heads = 1) =>
        (attn.legacy = attn.new /\ SameTriples)

C9_Witness ==
    /\ attn.pc = "done" /\ attn.n_heads = 1
    /\ attn.ch = 2 /\ attn.bs = 2 /\ attn.length = 2
    /\ attn.legacy = attn.new
    /\ attn.legacy[2].shape = <<2, 2, 2>>

-----------------------------------------------------------------------------
(* AttentionBlock.__init__: the head count of one attention unit built from
   a channel count, a head count and a per-head width (-1: not configured). *)

MaxAttnChannels == 8
MaxHeadWidth == 4

AttnCtorArgs ==
    [pc : {"L274"}, channels : 1..MaxAttnChannels, num_heads : 1..MaxHeads,
     num_head_channels : {-1} \cup 1..MaxHeadWidth,
     block : {None}, qkv : {None}, attention : {None}, err : {None}]

InitAttnCtor ==
    /\ CtorStart(DefaultConfig)
    /\ FrameCleared
    /\ attn \in AttnCtorArgs
    /\ rb = RbIdle

\* Lines 278-279: assert channels % num_head_channels == 0
HeadWidthUnchecked(channels, num_head_channels) == TRUE
HeadWidthDivides(channels, num_head_channels) ==
    channels % num_head_channels = 0

\* Lines 274-281: self.channels, self.num_heads
AttnCtorHeads ==
    /\ attn.pc = "L274"
    /\ IF attn.num_head_channels = -1
          \/ HeadWidthDivides(attn.channels, attn.num_head_channels)
       THEN attn' = [attn EXCEPT
                !.pc = "L282",
                !.block = AttentionBlock(attn.channels, attn.num_heads,
                                         attn.num_head_channels)]
       ELSE attn' = [attn EXCEPT
                !.pc = "raised",
                !.err = "AssertionError: q,k,v channels is not divisible by num_head_channels"]
    /\ UNCHANGED <<netVars, frame, rb>>

\* Lines 282-292: norm, qkv = conv_nd(1, channels, channels * 3, 1),
\* attention = QKVAttention[Legacy](self.num_heads), proj_out
AttnCtorLayers ==
    /\ attn.pc = "L282"
    /\ attn' = [attn EXCEPT
            !.pc = "constructed",
            !.qkv = Conv(attn.channels, attn.channels * 3),
            !.attention = [n_heads |-> attn.block.num_heads]]
    /\ UNCHANGED <<netVars, frame, rb>>

NextAttnCtor == AttnCtorHeads \/ AttnCtorLayers

SpecAttnCtor == InitAttnCtor /\ [][NextAttnCtor]_vars

AttnCtorOver == attn.pc \in {"constructed", "raised"}

\* C11: constructing an attention unit fails whenever its channel count is
\* not evenly divisible by the configured per-head width, and when it
\* succeeds with a per-head width configured, num_heads * num_head_channels
\* equals the channel count (for the block and for the attention it holds).
C11_HeadWidthDividesChannels ==
    /\ (/\ AttnCtorOver
        /\ attn.num_head_channels # -1
        /\ attn.channels % attn.num_head_channels # 0)
           => (attn.pc = "raised" /\ attn.block = None)
    /\ (attn.pc # "L274" /\ attn.pc # "raised" /\ attn.num_head_channels # -1)
           => attn.block.num_heads * attn.num_head_channels = attn.channels
    /\ (attn.pc = "constructed" /\ attn.num_head_channels # -1)
           => attn.attention.n_heads * attn.num_head_channels = attn.channels
    /\ (attn.pc = "constructed" /\ attn.num_head_channels = -1)
           => attn.block.num_heads = attn.num_heads

C11_Witness ==
    /\ attn.pc = "constructed"
    /\ attn.channels = 6 /\ attn.num_head_channels = 3
    /\ attn.block.num_heads = 2

\* a construction that fails: 6 channels, per-head width 4
C11_WitnessRaised ==
    /\ attn.pc = "raised"
    /\ attn.channels = 6 /\ attn.num_head_channels = 4

-----------------------------------------------------------------------------
(* ResBlock.__init__ and ResBlock._forward on small integer feature maps.
   A feature map is a sequence (channels) of sequences (positions, dims = 1).
   A convolution or linear layer is its weight and bias, one value each for
   all of its taps; normalization and SiLU are integer stand-ins for the
   floating-point functions (subtract the mean; keep the positive part). *)

RECURSIVE SumSeq(_)
SumSeq(q) == IF q = <<>> THEN 0 ELSE Head(q) + SumSeq(Tail(q))

Width(t) == Len(t)
Length(t) == Len(t[1])

\* normalization(channels)
Normalization(t) ==
    LET total == SumSeq([c \in 1..Width(t) |-> SumSeq(t[c])])
        mean == total \div (Width(t) * Length(t))
    IN [c \in 1..Width(t) |-> [p \in 1..Length(t) |-> t[c][p] - mean]]

\* nn.SiLU()
SiLU(v) == IF v > 0 THEN v ELSE 0
SiLUMap(t) == [c \in 1..Width(t) |-> [p \in 1..Length(t) |-> SiLU(t[c][p])]]

Param(w, b) == [w |-> w, b |-> b]

\* conv_nd(dims, in, out, 3, padding=1)
Conv3(par, t, out) ==
    LET Tap(c, p) == IF p \in 1..Length(t) THEN t[c][p] ELSE 0
    IN [o \in 1..out |-> [p \in 1..Length(t) |->
           par.b + par.w * SumSeq([c \in 1..Width(t) |->
                                     Tap(c, p - 1) + Tap(c, p) + Tap(c, p + 1)])]]

\* conv_nd(dims, in, out, 1)
Conv1(par, t, out) ==
    [o \in 1..out |-> [p \in 1..Length(t) |->
        par.b + par.w * SumSeq([c \in 1..Width(t) |-> t[c][p]])]]

\* Upsample(channels, False): nearest neighbour, factor 2
UpsampleNearest(t) ==
    [c \in 1..Width(t) |-> [p \in 1..(2 * Length(t)) |-> t[c][(p + 1) \div 2]]]

\* Downsample(channels, False): avg_pool, kernel 2, stride 2
AvgPool(t) ==
    [c \in 1..Width(t) |-> [p \in 1..(Length(t) \div 2) |->
        (t[c][2 * p - 1] + t[c][2 * p]) \div 2]]

\* h_upd / x_upd (lines 188-195)
Resample(updown, t) ==
    IF updown = "up" THEN UpsampleNearest(t)
    ELSE IF updown = "down" THEN AvgPool(t)
    ELSE t

\* zero_module(module): every parameter set to zero
ZeroModule(par) == Param(0, 0)

\* ResBlock.__init__ (lines 180-220): the layers' parameters
ResBlockParamsNotZeroed(init) ==
    [in_conv |-> init, emb_linear |-> init, out_conv |-> init, skip |-> init]
ResBlockParams(init) ==
    [in_conv |-> init, emb_linear |-> init,
     out_conv |-> ZeroModule(init), skip |-> init]

\* emb_layers (lines 197-203) on a one-channel embedding, and lines 243-245;
\* output channel o of the linear layer has bias b + o
EmbLayers(r) ==
    [o \in 1..(IF r.use_scale_shift_norm THEN 2 * r.out_channels
                ELSE r.out_channels) |->
        (r.params.emb_linear.b + o) + r.params.emb_linear.w * SiLU(r.emb)]

\* Lines 235-242
InLayers(r) ==
    IF r.updown # "none"
    THEN Conv3(r.params.in_conv,
               Resample(r.updown, SiLUMap(Normalization(r.x))),
               r.out_channels)
    ELSE Conv3(r.params.in_conv, SiLUMap(Normalization(r.x)), r.out_channels)

\* Lines 246-253; nn.Dropout is the identity at p = 0
OutLayers(r) ==
    IF r.use_scale_shift_norm
    THEN LET n == Normalization(r.h)
             mod == [c \in 1..Width(n) |-> [p \in 1..Length(n) |->
                        n[c][p] * (1 + r.emb_out[c])
                        + r.emb_out[r.out_channels + c]]]
         IN Conv3(r.params.out_conv, SiLUMap(mod), r.out_channels)
    ELSE LET sum == [c \in 1..Width(r.h) |-> [p \in 1..Length(r.h) |->
                        r.h[c][p] + r.emb_out[c]]]
         IN Conv3(r.params.out_conv, SiLUMap(Normalization(sum)),
                  r.out_channels)

\* skip_connection (lines 213-220) applied to the (resampled) x
SkipConnection(r, t) ==
    IF r.out_channels = r.channels THEN t
    ELSE IF r.use_conv THEN Conv3(r.params.skip, t, r.out_channels)
    ELSE Conv1(r.params.skip, t, r.out_channels)

\* Line 254
AddMaps(a, b) ==
    [c \in 1..Width(a) |-> [p \in 1..Length(a) |-> a[c][p] + b[c][p]]]

NoParams ==
    [in_conv |-> Param(0, 0), emb_linear |-> Param(0, 0),
     out_conv |-> Param(0, 0), skip |-> Param(0, 0)]

\* The feature maps tried: a value per channel plus an offset per position
FeatureMaps ==
    UNION {{[c \in 1..n |-> [p \in 1..MaxSpatial |-> a[c] + b[p]]] :
               a \in [1..n -> {-1, 2}], b \in [1..MaxSpatial -> {0, 1}]} :
           n \in 1..MaxChannels}

InitRes ==
    /\ CtorStart(DefaultConfig)
    /\ FrameCleared
    /\ attn = AttnIdle
    /\ \E fm \in FeatureMaps, out \in 1..MaxChannels,
          ssn \in BOOLEAN, uc \in BOOLEAN,
          ud \in {"none", "up", "down"}, e \in {-1, 2} :
          rb = [pc |-> "new", channels |-> Len(fm), out_channels |-> out,
                use_conv |-> uc, use_scale_shift_norm |-> ssn, updown |-> ud,
                params |-> NoParams,
                x |-> fm, emb |-> e, xs |-> <<>>, h |-> <<>>,
                emb_out |-> <<>>, result |-> <<>>]

\* ResBlock.__init__: layers take their initial (non-zero) parameters, the
\* last convolution of out_layers goes through zero_module
RbConstruct ==
    /\ rb.pc = "new"
    /\ \E init \in {Param(1, 1), Param(2, -1)} :
          rb' = [rb EXCEPT !.pc = "built",
                           !.params = ResBlockParams(init)]
    /\ UNCHANGED <<netVars, frame, attn>>

RbInLayers ==
    /\ rb.pc = "built"
    /\ rb' = [rb EXCEPT !.pc = "in", !.h = InLayers(rb),
                        !.xs = Resample(rb.updown, rb.x)]
    /\ UNCHANGED <<netVars, frame, attn>>

RbEmbLayers ==
    /\ rb.pc = "in"
    /\ rb' = [rb EXCEPT !.pc = "emb", !.emb_out = EmbLayers(rb)]
    /\ UNCHANGED <<netVars, frame, attn>>

RbOutLayers ==
    /\ rb.pc = "emb"
    /\ rb' = [rb EXCEPT !.pc = "out", !.h = OutLayers(rb)]
    /\ UNCHANGED <<netVars, frame, attn>>

RbSkipAdd ==
    /\ rb.pc = "out"
    /\ rb' = [rb EXCEPT !.pc = "done",
                        !.result = AddMaps(SkipConnection(rb, rb.xs), rb.h)]
    /\ UNCHANGED <<netVars, frame, attn>>

NextRes == RbConstruct \/ RbInLayers \/ RbEmbLayers \/ RbOutLayers \/ RbSkipAdd

SpecRes == InitRes /\ [][NextRes]_vars

AllZero(t) == \A c \in 1..Width(t) : \A p \in 1..Length(t) : t[c][p] = 0

\* C10: right after construction, whatever x, emb, the conditioning mode and
\* the resample direction, the residual branch of a ResBlock is all zeros and
\* the block returns skip_connection applied to the (resampled) x.
C10_ZeroInitIsSkipPath ==
    /\ rb.pc \in {"out", "done"} =>
          /\ AllZero(rb.h)
          /\ Width(rb.h) = rb.out_channels
          /\ Length(rb.h) = Length(rb.xs)
    /\ rb.pc = "done" =>
          rb.result = SkipConnection(rb, Resample(rb.updown, rb.x))

C10_Witness ==
    /\ rb.pc = "done"
    /\ rb.use_scale_shift_norm /\ rb.updown = "down"
    /\ rb.out_channels # rb.channels
    /\ ~AllZero(rb.result)
    /\ rb.params.in_conv.w # 0

-----------------------------------------------------------------------------
(* Properties of the construction and of the forward pass *)

Built == pc \notin {"enc", "dec", "ctor_raised"}
InCall == pc \notin {"enc", "dec", "ctor_raised", "ready"}
CallOver == pc \in {"returned", "raised"}
Levels == Len(cfg.channel_mult)

\* 1 initial convolution + num_res_blocks residual stages per level + one
\* downsample stage per level except the last
EncoderStageCount == 1 + Levels * cfg.num_res_blocks + (Levels - 1)

C2_OutputShapes ==
    /\ pc = "L721" => /\ h_gaussian.c = out_gaussian.conv_in
                      /\ h_bernoulli.c = out_bernoulli.conv_in
    /\ pc = "raised" => err # "RuntimeError: output projection"
    /\ pc = "returned" =>
          /\ outs[1] = Shape(x.n, cfg.out_channels_gaussian, x.s)
          /\ outs[2] = Shape(x.n, cfg.out_channels_bernoulli, x.s)

\* C3 as stated: with channel_mult = (1,2,4,8) and attention_resolutions =
\* {2,4}, a stage (encoder, middle, decoder) has an attention unit exactly
\* when the ds it was built at is 2 or 4.
C3Config ==
    /\ cfg.channel_mult = DefaultChannelMult
    /\ cfg.attention_resolutions = {2, 4}

AllStagesGaussian ==
    {input_blocks_gaussian[k] : k \in 1..Len(input_blocks_gaussian)}
    \cup {middle_block_gaussian}
    \cup {output_blocks_gaussian[k] : k \in 1..Len(output_blocks_gaussian)}

C3_AttentionExactlyAtDs2And4 ==
    (Built /\ C3Config) =>
        \A st \in AllStagesGaussian : HasAttention(st) <=> st.ds \in {2, 4}

\* A residual stage of the encoder: a ResBlock that does not resample
IsResidualStage(st) ==
    st.layers[1].type = "ResBlock" /\ ~st.layers[1].down

\* C3 as amended: in that configuration every residual stage of the encoder
\* and every decoder stage has an attention unit exactly when its ds is 2 or 4
\* (none at 1 or 8); the initial convolution and the downsample stages have
\* none whatever their ds; the middle block has one, and is built at ds = 8.
C3_AttentionPlacement ==
    (Built /\ C3Config) =>
        /\ \A k \in 1..Len(input_blocks_gaussian) :
              LET st == input_blocks_gaussian[k]
              IN HasAttention(st) <=>
                     (IsResidualStage(st) /\ st.ds \in {2, 4})
        /\ \A k \in 1..Len(output_blocks_gaussian) :
              LET st == output_blocks_gaussian[k]
              IN HasAttention(st) <=> st.ds \in {2, 4}
        /\ HasAttention(middle_block_gaussian)
        /\ middle_block_gaussian.ds = 8
        /\ {st.ds : st \in AllStagesGaussian} = {1, 2, 4, 8}

C3_Witness ==
    /\ Built /\ C3Config /\ cfg.num_res_blocks >= 1
    /\ \E k \in 1..Len(input_blocks_gaussian) :
          HasAttention(input_blocks_gaussian[k])
    /\ \E k \in 1..Len(output_blocks_gaussian) :
          HasAttention(output_blocks_gaussian[k])
    /\ \E k \in 1..Len(input_blocks_gaussian) :
          input_blocks_gaussian[k].ds = 2
          /\ ~HasAttention(input_blocks_gaussian[k])

\* C4: a backbone built with high_way = False, called with a 3-channel input
\* and no y, never invokes the conditioning module, never adds anchors and
\* does not raise for the missing module.
C4_HighwayOffSkipsAnchors ==
    (InCall /\ ~cfg.high_way /\ x.c = 3 /\ y = None /\ cfg.num_classes = None)
        => /\ "mfcm_forward" \notin steps
           /\ "anchors" \notin steps
           /\ err # "AttributeError: mfcm"

ClassFailure ==
    err \in {"AssertionError: must specify y iff class-conditional",
             "NotImplementedError"}

\* C5 as stated: a finished call whose y does not match the model's
\* class-conditioning has failed; with both present it has failed with the
\* not-implemented error; a class-conditional backbone never returns; and
\* these failures happen before any encoder stage or push.
C5_ClassConditionalAlwaysNotImplemented ==
    /\ (CallOver /\ (y # None) # (cfg.num_classes # None)) => pc = "raised"
    /\ (CallOver /\ y # None /\ cfg.num_classes # None) =>
          pc = "raised" /\ err = "NotImplementedError"
    /\ (InCall /\ cfg.num_classes # None) => pc # "returned"
    /\ (pc = "raised" /\ ClassFailure) =>
          "encoder" \notin steps /\ pushes = <<0, 0>>

\* C5 as amended: the same, the not-implemented error being the outcome when
\* both are present and the input has 3 channels (any other input has already
\* failed the channel check); a mismatch on a 3-channel input fails the y
\* assertion.
C5_ClassConditioning ==
    /\ (CallOver /\ (y # None) # (cfg.num_classes # None)) =>
          /\ pc = "raised"
          /\ x.c = 3 =>
                err = "AssertionError: must specify y iff class-conditional"
    /\ (CallOver /\ y # None /\ cfg.num_classes # None) =>
          /\ pc = "raised"
          /\ x.c = 3 => err = "NotImplementedError"
          /\ x.c # 3 => err = "AssertionError: Input must have 3 channels"
    /\ (InCall /\ cfg.num_classes # None) => pc # "returned"
    /\ (pc = "raised" /\ ClassFailure) =>
          "encoder" \notin steps /\ pushes = <<0, 0>>

C5_Witness ==
    /\ pc = "raised" /\ err = "NotImplementedError"
    /\ y # None /\ cfg.num_classes # None /\ x.c = 3
    /\ "stacks" \in steps

\* C6: a call whose input does not have 3 channels fails at the channel
\* check, the only step it has run: no y check, no stacks, no timestep
\* embedding, no conditioning module, no push.
C6_ChannelCheckFirst ==
    (InCall /\ pc # "L681" /\ x.c # 3) =>
        /\ pc = "raised"
        /\ err = "AssertionError: Input must have 3 channels"
        /\ steps = {"channels"}
        /\ pushes = <<0, 0>>
        /\ hs_gaussian = <<>> /\ hs_bernoulli = <<>>
        /\ anch = NoAnch

C6_Witness ==
    /\ pc = "raised" /\ x.c = 4
    /\ y # None /\ cfg.num_classes = None
    /\ steps = {"channels"}

SkipSizesMatch ==
    /\ pc = "L716" => hs_gaussian # <<>> /\ Last(hs_gaussian).s = h_gaussian.s
    /\ pc = "L718" =>
          hs_bernoulli # <<>> /\ Last(hs_bernoulli).s = h_bernoulli.s

StackFullAtDecodeStart ==
    (pc = "L716" /\ pops = <<0, 0>>) =>
        /\ Len(hs_gaussian) = EncoderStageCount
        /\ Len(hs_bernoulli) = EncoderStageCount

\* C8 as stated: for every input spatial size, the stacks hold one entry per
\* encoder stage when decoding starts and every skip popped has the spatial
\* size of the decoder's current feature map.
C8_SkipSizesMatchAnySize == StackFullAtDecodeStart /\ SkipSizesMatch

\* C8 as amended: the same for every input whose spatial size is a multiple
\* of 2^(len(channel_mult) - 1).
C8_SkipSizesMatchDivisible ==
    /\ StackFullAtDecodeStart
    /\ x.s % Pow2(Levels - 1) = 0 =>
          /\ SkipSizesMatch
          /\ pc = "raised" => err \notin {"RuntimeError: cat sizes",
                                          "RuntimeError: encoder stage"}

C8_Witness ==
    /\ pc = "L716" /\ ind >= 1
    /\ Levels >= 2 /\ x.s >= 2
    /\ output_blocks_gaussian[ind].layers[
           Len(output_blocks_gaussian[ind].layers)].up
    /\ h_gaussian.s = x.s
    /\ Last(hs_gaussian).s = x.s

\* The channel count a stage puts out: that of its last layer
StageOutChannels(stage) == stage.layers[Len(stage.layers)].out_channels

\* Decoder stage j (1-based) of a ladder is built for the channels of the
\* stage before it (the middle block for j = 1) plus those of encoder stage
\* n + 1 - j (1-based), n the number of encoder stages
DecoderPairing(enc, mid, dec) ==
    \A j \in 1..Len(dec) :
        /\ Len(enc) + 1 - j >= 1
        /\ dec[j].layers[1].channels =
              (IF j = 1 THEN StageOutChannels(mid)
               ELSE StageOutChannels(dec[j - 1]))
              + StageOutChannels(enc[Len(enc) + 1 - j])

\* Entry k of a skip stack has the channel count of encoder stage k, and the
\* entry on top, joined to the feature map h, has the channel count decoder
\* stage ind was built for
SkipPairing(enc, dec, hs, h) ==
    /\ Len(hs) = Len(enc) - ind
    /\ \A k \in 1..Len(hs) : hs[k].c = StageOutChannels(enc[k])
    /\ h.c + hs[Len(hs)].c = dec[ind + 1].layers[1].channels

\* C12: while the ladders are built the ledger holds, in order, the channel
\* counts the encoder stages put out; decoder stage j (0-based) is built for
\* the channels of the previous decoder stage (or the middle block) plus the
\* ledger entry of encoder stage n-1-j; and in a forward call the tensor it
\* receives joins the current feature map to the skip tensor encoder stage
\* n-1-j pushed, so the joined channel count is the one the stage was built
\* for, at every decoder stage of both pathways.
C12_LedgerStackPairing ==
    /\ pc \in {"enc", "dec"} =>
          /\ Len(input_block_chans) <= Len(input_blocks_gaussian)
          /\ \A k \in 1..Len(input_block_chans) :
                input_block_chans[k] =
                    StageOutChannels(input_blocks_gaussian[k])
    /\ pc = "dec" =>
          /\ Len(input_block_chans) =
                Len(input_blocks_gaussian) - Len(output_blocks_gaussian)
          /\ DecoderPairing(input_blocks_gaussian, middle_block_gaussian,
                            output_blocks_gaussian)
    /\ pc = "ready" =>
          /\ DecoderPairing(input_blocks_gaussian, middle_block_gaussian,
                            output_blocks_gaussian)
          /\ DecoderPairing(input_blocks_bernoulli, middle_block_bernoulli,
                            output_blocks_bernoulli)
    /\ pc = "L716" =>
          /\ SkipPairing(input_blocks_gaussian, output_blocks_gaussian,
                         hs_gaussian, h_gaussian)
          /\ SkipPairing(input_blocks_bernoulli, output_blocks_bernoulli,
                         hs_bernoulli, h_bernoulli)
    /\ pc = "L718" =>
          SkipPairing(input_blocks_bernoulli, output_blocks_bernoulli,
                      hs_bernoulli, h_bernoulli)
    /\ pc = "raised" => err \notin {"IndexError: pop from empty list",
                                    "RuntimeError: decoder stage"}

\* the last decoder stage of the Bernoulli pathway is about to take the
\* bottom entry of its stack, in a network whose levels differ in width
C12_Witness ==
    /\ pc = "L718"
    /\ cfg.channel_mult = <<2, 1>> /\ cfg.num_res_blocks = 1
    /\ ind + 1 = Len(output_blocks_bernoulli)
    /\ Len(hs_bernoulli) = 1 /\ Len(hs_gaussian) = 0
    /\ h_bernoulli.c + hs_bernoulli[1].c = 3 * cfg.model_channels
    /\ output_blocks_bernoulli[1].layers[1].channels = 2 * cfg.model_channels

\* The encoder loop is past the anchor addition of stage 0
PastAnchorStage ==
    \/ pc \in {"L709", "L710"}
    \/ pc \in {"L704", "L705"} /\ ind >= 1
    \/ pc \in {"L712", "L716", "L718", "L721", "returned"}

\* C13: in a forward call the anchor bias concat(anchor_low, anchor_low,
\* anchor_high) is added once per pathway, after encoder stage 0 and at no
\* later stage, the same bias in both pathways, and before the push: every
\* entry of each skip stack, its bottom entry (the last one popped) first,
\* carries the bias once, and every later stage takes a feature map that
\* carries it once.
C13_AnchorOnceBeforePush ==
    LET once == <<Cat(Cat(anch[1], anch[1]), anch[2])>>
    IN /\ InCall =>
             /\ bias.h_gaussian = bias.h_bernoulli
             /\ bias.h_gaussian \in {<<>>, once}
             /\ Len(bias.hs_gaussian) = Len(hs_gaussian)
             /\ Len(bias.hs_bernoulli) = Len(hs_bernoulli)
             /\ \A k \in 1..Len(hs_gaussian) : bias.hs_gaussian[k] = once
             /\ \A k \in 1..Len(hs_bernoulli) : bias.hs_bernoulli[k] = once
       /\ pc = "L707" => /\ ind = 0
                         /\ pushes = <<0, 0>>
                         /\ bias.h_gaussian = <<>>
       /\ (pc \in {"L704", "L705"} /\ ind = 0) =>
             /\ bias.h_gaussian = <<>>
             /\ hs_gaussian = <<>> /\ hs_bernoulli = <<>>
       /\ PastAnchorStage => bias.h_gaussian = once
       /\ (pc = "L716" /\ Len(hs_gaussian) = 1) =>
             ind + 1 = Len(output_blocks_gaussian)
       /\ (pc = "L718" /\ Len(hs_bernoulli) = 1) =>
             ind + 1 = Len(output_blocks_bernoulli)

\* the last decoder stage is about to pop the bottom entry, which carries the
\* bias of 8 + 8 + 16 channels once; the stages after stage 0 changed the
\* width and the resolution
C13_Witness ==
    /\ pc = "L716"
    /\ Len(hs_gaussian) = 1 /\ Len(hs_bernoulli) = 1
    /\ ind + 1 = Len(output_blocks_gaussian) /\ ind >= 3
    /\ bias.hs_gaussian[1] = <<Shape(x.n, cfg.model_channels, x.s)>>
    /\ bias.hs_bernoulli[1] = bias.hs_gaussian[1]
    /\ anch[1].c = 8 /\ anch[2].c = 16
    /\ cfg.channel_mult = <<1, 2>>

\* The stages of a ladder that resample (one layer down, or a last layer up)
DownStages(enc) == {k \in 1..Len(enc) : enc[k].layers[1].down}
UpStages(dec) == {j \in 1..Len(dec) : dec[j].layers[Len(dec[j].layers)].up}

\* The level (1-based) of encoder stage k >= 2 and of decoder stage j: a
\* level is num_res_blocks stages and a downsample stage in the encoder,
\* num_res_blocks + 1 stages in the decoder, from the last level down
EncLevel(k) == ((k - 2) \div (cfg.num_res_blocks + 1)) + 1
DecLevel(j) == Levels - ((j - 1) \div (cfg.num_res_blocks + 1))

EncResidualStages ==
    {k \in 2..Len(input_blocks_gaussian) : k \notin DownStages(input_blocks_gaussian)}

\* C14: during construction ds is a power of two in [1, 2^(len(channel_mult)
\* - 1)]; it is doubled once per encoder downsample stage and halved once per
\* decoder upsample stage and is 1 again when the decoder is built; every
\* stage of level l, encoder or decoder, is tested for attention with ds =
\* 2^(l-1), the decoder stage that carries the upsample included, so a
\* decoder stage has attention exactly when the encoder stages of its level
\* have.
C14_DsMirrored ==
    /\ \E e \in 0..(Levels - 1) : ds = Pow2(e)
    /\ pc \in {"enc", "dec", "ready"} =>
          ds = Pow2(Cardinality(DownStages(input_blocks_gaussian))
                    - Cardinality(UpStages(output_blocks_gaussian)))
    /\ pc = "enc" => ds = Pow2(level - 1)
    /\ (pc = "dec" /\ level >= 1) => ds = Pow2(level - 1)
    /\ Built => ds = 1
    /\ (pc = "dec" /\ level = 0) \/ pc = "ready" =>
          /\ ds = 1
          /\ Cardinality(DownStages(input_blocks_gaussian)) = Levels - 1
          /\ Cardinality(UpStages(output_blocks_gaussian)) = Levels - 1
    /\ pc \in {"enc", "dec", "ready"} =>
          /\ \A k \in 2..Len(input_blocks_gaussian) :
                input_blocks_gaussian[k].ds = Pow2(EncLevel(k) - 1)
          /\ \A j \in 1..Len(output_blocks_gaussian) :
                /\ output_blocks_gaussian[j].ds = Pow2(DecLevel(j) - 1)
                /\ HasAttention(output_blocks_gaussian[j])
                      <=> output_blocks_gaussian[j].ds
                             \in cfg.attention_resolutions
                /\ \A k \in EncResidualStages :
                      EncLevel(k) = DecLevel(j) =>
                         /\ input_blocks_gaussian[k].ds =
                               output_blocks_gaussian[j].ds
                         /\ HasAttention(input_blocks_gaussian[k])
                               <=> HasAttention(output_blocks_gaussian[j])

\* four levels, attention at ds 1 and 8: the first decoder stage was tested
\* at 8, the decoder stage that carries the last upsample at 2, the last at 1
C14_Witness ==
    /\ pc = "ready"
    /\ cfg.channel_mult = DefaultChannelMult
    /\ cfg.attention_resolutions = {1, 8}
    /\ cfg.num_res_blocks = 1
    /\ ds = 1
    /\ output_blocks_gaussian[1].ds = 8
    /\ HasAttention(output_blocks_gaussian[1])
    /\ output_blocks_gaussian[6].ds = 2
    /\ 6 \in UpStages(output_blocks_gaussian)
    /\ ~HasAttention(output_blocks_gaussian[6])
    /\ HasAttention(output_blocks_gaussian[8])
    /\ HasAttention(input_blocks_gaussian[2])

\* The kinds (residual / attention / resample) and channel counts of the
\* layers of a stage
StageStructure(stage) ==
    [k \in 1..Len(stage.layers) |->
        <<stage.layers[k].type, stage.layers[k].up, stage.layers[k].down,
          stage.layers[k].channels, stage.layers[k].out_channels>>]

SameLadder(g, b) ==
    /\ Len(g) = Len(b)
    /\ \A k \in 1..Len(g) : StageStructure(g[k]) = StageStructure(b[k])

PathwaysIdentical ==
    /\ SameLadder(input_blocks_gaussian, input_blocks_bernoulli)
    /\ StageStructure(middle_block_gaussian) =
          StageStructure(middle_block_bernoulli)
    /\ SameLadder(output_blocks_gaussian, output_blocks_bernoulli)

\* The ladders of the two pathways hold equal stages (every field of every
\* layer), which is more than PathwaysIdentical
PathwaysEqual ==
    /\ input_blocks_bernoulli = input_blocks_gaussian
    /\ middle_block_bernoulli = middle_block_gaussian
    /\ output_blocks_bernoulli = output_blocks_gaussian

\* Entries at equal positions of the two skip stacks have identical shapes
SameSkipShapes ==
    \A k \in 1..Len(hs_gaussian) :
        k <= Len(hs_bernoulli) => hs_gaussian[k] = hs_bernoulli[k]

\* The loops never index the Bernoulli ladders past their ends
LoopsInsideBernoulli ==
    /\ pc \in {"L704", "L705", "L707", "L709", "L710"} =>
          ind + 1 <= Len(input_blocks_bernoulli)
    /\ pc \in {"L716", "L718"} => ind + 1 <= Len(output_blocks_bernoulli)
    /\ pc = "raised" => err # "IndexError"

\* C15 as stated: the Bernoulli ladders have the stages, kinds and channel
\* counts of the Gaussian ones; at every point of a forward call the two skip
\* stacks have equal length and identical shapes at equal positions; the
\* loops never run past the Bernoulli ladder.
C15_LockstepAtEveryPoint ==
    /\ Built => PathwaysIdentical
    /\ InCall => Len(hs_gaussian) = Len(hs_bernoulli) /\ SameSkipShapes
    /\ LoopsInsideBernoulli

\* C15 as amended: the Bernoulli ladders equal the Gaussian ones stage by
\* stage, and so have their kinds and channel counts; the stacks have equal
\* length whenever a loop iteration starts or ends; between the Gaussian and
\* the Bernoulli statement of one iteration the Gaussian stack is one entry
\* ahead (after its push) or one entry behind (after its pop); entries at
\* equal positions have identical shapes; the loops never run past the
\* Bernoulli ladder.
C15_LockstepPerIteration ==
    /\ Built => PathwaysEqual
    /\ pc = "ready" => PathwaysIdentical
    /\ InCall => SameSkipShapes
    /\ (InCall /\ pc \notin {"L710", "L718", "raised"}) =>
          Len(hs_gaussian) = Len(hs_bernoulli)
    /\ pc = "L710" => Len(hs_gaussian) = Len(hs_bernoulli) + 1
    /\ pc = "L718" => Len(hs_gaussian) + 1 = Len(hs_bernoulli)
    /\ pc = "raised" =>
          Len(hs_gaussian) \in {Len(hs_bernoulli) - 1, Len(hs_bernoulli)}
    /\ pc \in {"L704", "L705", "L707", "L709", "L710"} =>
          /\ Len(hs_bernoulli) = ind
          /\ h_gaussian = h_bernoulli \/ pc = "L705"
    /\ pc \in {"L716", "L718"} =>
          Len(hs_bernoulli) = Len(input_blocks_bernoulli) - ind
    /\ LoopsInsideBernoulli

\* the Gaussian pathway has popped and run decoder stage ind, the Bernoulli
\* pathway has not yet; the ladders hold attention and resample stages
C15_Witness ==
    /\ pc = "L718"
    /\ ind >= 1
    /\ Len(hs_bernoulli) >= 2
    /\ Len(hs_gaussian) + 1 = Len(hs_bernoulli)
    /\ h_gaussian # h_bernoulli
    /\ Levels >= 2
    /\ \E k \in 1..Len(input_blocks_bernoulli) :
          HasAttention(input_blocks_bernoulli[k])
    /\ UpStages(output_blocks_bernoulli) # {}

====
